---- MODULE Spec2Model ----
(***************************************************************************)
(* Model of the label-scanning backend: the /predict request handler of    *)
(* app/backend/app.py (OCR, ingredient extraction, allergen detection and  *)
(* health scoring) and the best-of-N OCR loop of app/backend/test_ocr.py.  *)
(*                                                                         *)
(* Text is a TLA+ string; Len, SubSeq and \o act on it character by        *)
(* character.  Floating-point impact weights are fixed-point numbers in    *)
(* tenths, so that int() is a real truncation.                             *)
(***************************************************************************)
EXTENDS Integers, Sequences, FiniteSets, TLC

VARIABLES
    pc,                 \* position of the predict handler
    csv,                \* predict: what was found at csv_path (the reference table)
    ocr_outcome,        \* what pytesseract did for this request
    ocr_text,           \* predict: ocr_text
    idx,                \* predict: offset of the marker that was found, or -1
    ingredients_text,   \* predict: ingredients_text
    tokens,             \* predict: tokens
    csv_failed,         \* predict: the "CSV parsing failed" handler ran
    allergens_found,    \* predict: allergens_found
    resp,               \* the JSON body returned
    status,             \* the HTTP status returned
    m_pc,               \* position of main() of test_ocr.py
    vi,                 \* main: index of the variant being processed
    mi,                 \* main: index of the next segmentation mode to try
    best_text_for_variant,
    best_score,
    results,            \* main: results
    results_sorted,     \* main: results_sorted
    best,               \* main: the result printed as "Best result"
    attempts            \* the OCR engine's calls so far, in call order

predict_vars == <<pc, csv, ocr_outcome, ocr_text, idx, ingredients_text,
                  tokens, csv_failed, allergens_found, resp, status>>
main_vars == <<m_pc, vi, mi, best_text_for_variant, best_score, results,
               results_sorted, best, attempts>>
vars == <<predict_vars, main_vars>>

-----------------------------------------------------------------------------
(* Bounds of the model *)

MaxPieces == 3
MaxRows == 2
NVariants == 2

-----------------------------------------------------------------------------
(* Characters and strings *)

\* The characters of the modelled texts, in code-point order.
Alphabet == "\n ,.:;ABCDEFGHIJKLMNOPQRSTUVWXYZabcdefghijklmnopqrstuvwxyz"

CharAt(s, i) == SubSeq(s, i, i)

Chars == {CharAt(Alphabet, i) : i \in 1..Len(Alphabet)}

\* Position of a character in code-point order.
Ord == [c \in Chars |-> CHOOSE i \in 1..Len(Alphabet) : CharAt(Alphabet, i) = c]

UpperChars == {CharAt(Alphabet, i) : i \in 7..32}

\* str.lower() on one character: 'A'..'Z' move 26 places up.
LowerChar == [c \in Chars |->
                 IF c \in UpperChars THEN CharAt(Alphabet, Ord[c] + 26) ELSE c]

\* The characters lo..hi of s, lower-cased one by one.
RECURSIVE LowerRange(_, _, _)
LowerRange(s, lo, hi) ==
    IF lo > hi THEN ""
    ELSE IF lo = hi THEN LowerChar[CharAt(s, lo)]
    ELSE LET mid == (lo + hi) \div 2
         IN LowerRange(s, lo, mid) \o LowerRange(s, mid + 1, hi)

\* str.lower()
Lower(s) == LowerRange(s, 1, Len(s))

\* s[i:] with a 0-based offset
SliceFrom(s, i) == IF i >= Len(s) THEN "" ELSE SubSeq(s, i + 1, Len(s))

\* s[:i] with a 0-based offset
SliceTo(s, i) == IF i <= 0 THEN "" ELSE SubSeq(s, 1, IF i > Len(s) THEN Len(s) ELSE i)

MatchesAt(hay, needle, i) ==
    /\ i + Len(needle) <= Len(hay)
    /\ SubSeq(hay, i + 1, i + Len(needle)) = needle

\* str.find(): the smallest 0-based offset of needle in hay, or -1
Find(hay, needle) ==
    IF \E i \in 0..(Len(hay) - Len(needle)) : MatchesAt(hay, needle, i)
    THEN CHOOSE i \in 0..(Len(hay) - Len(needle)) :
            /\ MatchesAt(hay, needle, i)
            /\ \A j \in 0..(i - 1) : ~MatchesAt(hay, needle, j)
    ELSE -1

\* needle in hay
Contains(hay, needle) == \E i \in 0..(Len(hay) - Len(needle)) : MatchesAt(hay, needle, i)

Whitespace == {" ", "\n"}

\* str.strip(): from the first to the last character that is not whitespace
Strip(s) ==
    LET kept == {i \in 1..Len(s) : CharAt(s, i) \notin Whitespace}
    IN IF kept = {} THEN ""
       ELSE SubSeq(s, CHOOSE i \in kept : \A j \in kept : i <= j,
                      CHOOSE i \in kept : \A j \in kept : i >= j)

\* Code-point lexicographic order on strings, as Python compares str: decided
\* by the first position where the two differ, a proper prefix being smaller.
StrLess(a, b) ==
    LET n == IF Len(a) < Len(b) THEN Len(a) ELSE Len(b)
        diff == {i \in 1..n : CharAt(a, i) # CharAt(b, i)}
    IN IF diff = {} THEN Len(a) < Len(b)
       ELSE LET d == CHOOSE i \in diff : \A j \in diff : i <= j
            IN Ord[CharAt(a, d)] < Ord[CharAt(b, d)]

\* The non-empty pieces of s between runs of characters of seps, in order.
\* (re.split also yields empty pieces at the ends; the callers drop them.)
RECURSIVE PiecesFrom(_, _, _)
PiecesFrom(s, seps, from) ==
    LET starts == {i \in from..Len(s) : CharAt(s, i) \notin seps}
    IN IF starts = {} THEN <<>>
       ELSE LET b == CHOOSE i \in starts : \A j \in starts : i <= j
                stops == {i \in b..Len(s) : CharAt(s, i) \in seps}
                e == IF stops = {} THEN Len(s) + 1
                     ELSE CHOOSE i \in stops : \A j \in stops : i <= j
            IN <<SubSeq(s, b, e - 1)>> \o PiecesFrom(s, seps, e)

SplitRuns(s, seps) == PiecesFrom(s, seps, 1)

RECURSIVE SeqToSet(_)
SeqToSet(xs) == IF xs = <<>> THEN {} ELSE {Head(xs)} \cup SeqToSet(Tail(xs))

RECURSIVE Sum(_)
Sum(xs) == IF xs = <<>> THEN 0 ELSE Head(xs) + Sum(Tail(xs))

Max2(a, b) == IF b > a THEN b ELSE a

-----------------------------------------------------------------------------
(* predict, step 5: ingredient extraction *)

markers == <<"ingredients", "ingredients as served", "ingredient">>

stop_tokens == <<"nutritional", "nutrition", "\n\n", "typical values">>

\* for marker in [...]: the index of the first marker of the list found in the
\* lower-cased text, 0 when none is.
FirstMarker(text_lower) ==
    IF \E k \in 1..Len(markers) : Contains(text_lower, markers[k])
    THEN CHOOSE k \in 1..Len(markers) :
            /\ Contains(text_lower, markers[k])
            /\ \A j \in 1..(k - 1) : ~Contains(text_lower, markers[j])
    ELSE 0

\* idx of the marker that wins, -1 when no marker occurs
MarkerIdx(text) ==
    LET text_lower == Lower(text)
        k == FirstMarker(text_lower)
    IN IF k = 0 THEN -1 ELSE Find(text_lower, markers[k])

\* for t in stop_tokens: the first token of the list found in the snippet
\* decides stop_idx (the loop breaks there); -1 stands for None.
StopIdx(snippet) ==
    LET low == Lower(snippet)
    IN IF \E k \in 1..Len(stop_tokens) : Contains(low, stop_tokens[k])
       THEN LET first == CHOOSE k \in 1..Len(stop_tokens) :
                            /\ Contains(low, stop_tokens[k])
                            /\ \A j \in 1..(k - 1) : ~Contains(low, stop_tokens[j])
            IN Find(low, stop_tokens[first])
       ELSE -1

\* ingredients_text as the handler leaves it
ExtractIngredients(text) ==
    LET i == MarkerIdx(text)
        snippet == SliceFrom(text, i)
        stop_idx == StopIdx(snippet)
        found == IF i = -1 THEN ""
                 ELSE IF stop_idx = -1 THEN snippet ELSE SliceTo(snippet, stop_idx)
    IN IF found = "" THEN text ELSE found

\* [t.strip() for t in re.split(r'[,\n;]+', ingredients_text) if t.strip()]
Tokenize(text) ==
    LET pieces == SplitRuns(text, {",", "\n", ";"})
        stripped == [k \in 1..Len(pieces) |-> Strip(pieces[k])]
    IN SelectSeq(stripped, LAMBDA t : t # "")

-----------------------------------------------------------------------------
(* predict, step 6: allergens and scoring *)

sample_allergens == <<"milk", "egg", "eggs", "peanut", "peanuts", "soy", "wheat",
                      "gluten", "fish", "shellfish", "tree nut", "almond", "cashew">>

\* bad_words with the allergen "milk" penalised as well
bad_words_with_milk == <<"sugar", "salt", "sodium", "hydrogenated", "trans", "palmitate",
                         "fat", "fatty", "oil", "flavour", "flavor", "milk">>

bad_words == <<"sugar", "salt", "sodium", "hydrogenated", "trans",
               "palmitate", "fat", "fatty", "oil", "flavour", "flavor">>

\* df_ing[df_ing['ingredient_lc'].str.contains(re.escape(tl))]
MatchRows(rows, tl) == SelectSeq(rows, LAMBDA r : Contains(Lower(r.name), tl))

RowNames(rows) == [k \in 1..Len(rows) |-> rows[k].name]

RowImpacts(rows) == [k \in 1..Len(rows) |-> rows[k].impact]

\* the first loop over tokens: allergens_found.extend(matching names)
RECURSIVE CsvAllergens(_, _)
CsvAllergens(rows, toks) ==
    IF toks = <<>> THEN <<>>
    ELSE RowNames(MatchRows(rows, Lower(Head(toks)))) \o CsvAllergens(rows, Tail(toks))

\* the second loop over tokens: impacts += rows['impact'].astype(float).tolist()
RECURSIVE CsvImpacts(_, _)
CsvImpacts(rows, toks) ==
    IF toks = <<>> THEN <<>>
    ELSE RowImpacts(MatchRows(rows, Lower(Head(toks)))) \o CsvImpacts(rows, Tail(toks))

\* astype(float) raises on a matched row whose impact is not a number
ImpactsRaise(rows, toks) ==
    \E k \in 1..Len(toks) :
        \E j \in 1..Len(rows) :
            /\ Contains(Lower(rows[j].name), Lower(toks[k]))
            /\ ~rows[j].numeric

\* The try block around the reference table: what it leaves in allergens_found
\* and health_score (scored = FALSE stands for None), and whether it raised.
\* Scores are in tenths.
CsvStage(table, toks) ==
    IF table.state = "absent"
    THEN [allergens_found |-> <<>>, scored |-> FALSE, health |-> 0, failed |-> FALSE]
    ELSE IF table.state = "unreadable"
    THEN [allergens_found |-> <<>>, scored |-> FALSE, health |-> 0, failed |-> TRUE]
    ELSE LET found == CsvAllergens(table.rows, toks)
             impacts == CsvImpacts(table.rows, toks)
         IN IF ~table.has_impact
            THEN [allergens_found |-> found, scored |-> FALSE, health |-> 0,
                  failed |-> FALSE]
            ELSE IF ImpactsRaise(table.rows, toks)
            THEN [allergens_found |-> found, scored |-> FALSE, health |-> 0,
                  failed |-> TRUE]
            ELSE IF impacts = <<>>
            THEN [allergens_found |-> found, scored |-> FALSE, health |-> 0,
                  failed |-> FALSE]
            ELSE [allergens_found |-> found, scored |-> TRUE,
                  health |-> Max2(0, 1000 - Sum(impacts)), failed |-> FALSE]

RECURSIVE TermsIn(_, _)
TermsIn(tl, terms) ==
    IF terms = <<>> THEN <<>>
    ELSE (IF Contains(tl, Head(terms)) THEN <<Head(terms)>> ELSE <<>>)
         \o TermsIn(tl, Tail(terms))

\* for t in tokens: for a in sample_allergens: if a in tl: append(a)
RECURSIVE FallbackAllergens(_)
FallbackAllergens(toks) ==
    IF toks = <<>> THEN <<>>
    ELSE TermsIn(Lower(Head(toks)), sample_allergens) \o FallbackAllergens(Tail(toks))

\* for t in tokens: for k in bad_words: if k in tl: penalty += 5
RECURSIVE FallbackPenalty(_)
FallbackPenalty(toks) ==
    IF toks = <<>> THEN 0
    ELSE 5 * Len(TermsIn(Lower(Head(toks)), bad_words)) + FallbackPenalty(Tail(toks))

\* health_score = max(0, 100 - penalty), in tenths
FallbackHealth(toks) == 10 * Max2(0, 100 - FallbackPenalty(toks))

RECURSIVE SortSet(_)
SortSet(S) ==
    IF S = {} THEN <<>>
    ELSE LET m == CHOOSE x \in S : \A y \in S \ {x} : StrLess(x, y)
         IN <<m>> \o SortSet(S \ {m})

\* Duplicates dropped, first occurrences kept in list order: no sort
RECURSIVE DedupKeepOrder(_)
DedupKeepOrder(xs) ==
    IF xs = <<>> THEN <<>>
    ELSE LET front == DedupKeepOrder(SubSeq(xs, 1, Len(xs) - 1))
             last == xs[Len(xs)]
         IN IF last \in SeqToSet(front) THEN front ELSE Append(front, last)

\* sorted(set(allergens_found))
SortedSet(xs) == SortSet(SeqToSet(xs))

\* int(health_score) of a non-negative score in tenths
IntOf(h) == h \div 10

\* tokens[:200]
First200(toks) == IF Len(toks) > 200 THEN SubSeq(toks, 1, 200) ELSE toks

\* lines 131-138: the built-in vocabulary is used only when the table left
\* allergens_found empty; c is what the try block around the table left
AllergensFound(c, toks) ==
    IF c.allergens_found = <<>> THEN FallbackAllergens(toks) ELSE c.allergens_found

\* lines 140-150: the built-in penalties are used only when health_score is None
HealthScore(c, toks) == IF c.scored THEN c.health ELSE FallbackHealth(toks)

\* lines 153-160: the body of the success response
Response(text, ing, toks, found, health) ==
    [ok |-> TRUE,
     ocr_text |-> text,
     ingredients_text |-> ing,
     tokens |-> First200(toks),
     allergens |-> SortedSet(found),
     health_score |-> IntOf(health)]

-----------------------------------------------------------------------------
(* The inputs of predict: what the OCR engine reads off the label and what  *)
(* the reference table holds                                                *)

Pieces == {"Ingredients: ", "Wheat, Milk", "; Salt, sugar", "\n\n", "Nutrition Facts"}

RECURSIVE Composed(_)
Composed(n) ==
    IF n = 0 THEN {""}
    ELSE LET shorter == Composed(n - 1)
         IN shorter \cup {t \o p : t \in shorter, p \in Pieces}

SampleTexts == {"skim milk powder, sugar, salt",
                "Ingredients: Water, Sugar, Salt. Nutrition Facts ...",
                "Ingredients: Salt\n\nIngredients as served: Sugar",
                "Ingredients: Wheat\n\nEggs Nutrition",
                "Contains eggs. Ingredients as served: Milk, Wheat"}

OcrTexts == SampleTexts \cup Composed(MaxPieces)

\* Rows of the reference table; impact is in tenths, numeric = FALSE is a cell
\* that astype(float) cannot convert.
RowPool == {[name |-> "Milk Powder", numeric |-> TRUE, impact |-> -25],
            [name |-> "Wheat Flour", numeric |-> TRUE, impact |-> 1205],
            [name |-> "Salt", numeric |-> FALSE, impact |-> 0]}

RECURSIVE RowSeqs(_)
RowSeqs(n) ==
    IF n = 0 THEN {<<>>}
    ELSE LET shorter == RowSeqs(n - 1)
         IN shorter \cup {Append(rs, r) : rs \in shorter, r \in RowPool}

Tables ==
    {[state |-> "absent"], [state |-> "unreadable"]}
    \cup {[state |-> "present", has_impact |-> h, rows |-> rs] :
            h \in BOOLEAN, rs \in RowSeqs(MaxRows)}

-----------------------------------------------------------------------------
(* predict *)

NoResponse == [pending |-> TRUE]

\* csv before the handler has looked for the file
NotRead == [state |-> "not read"]

Respond(body, code) ==
    /\ resp' = body
    /\ status' = code
    /\ pc' = "done"

\* lines 33-36 and 38-43: pick the upload and save it
Receive ==
    /\ pc = "idle"
    /\ \E has_file \in BOOLEAN, saved \in BOOLEAN :
          IF ~has_file
          THEN Respond([error |-> "no file uploaded", ok |-> FALSE], 400)
          ELSE IF ~saved
          THEN Respond([error |-> "server error", detail |-> "OSError"], 500)
          ELSE /\ pc' = "saved"
               /\ UNCHANGED <<resp, status>>
    /\ UNCHANGED <<csv, ocr_outcome, ocr_text, idx, ingredients_text, tokens,
                   csv_failed, allergens_found, main_vars>>

\* lines 46-66: decode by either path and preprocess; an image neither decoder
\* reads raises into the outer handler
LoadImage ==
    /\ pc = "saved"
    /\ \E decodable \in BOOLEAN :
          IF decodable
          THEN /\ pc' = "preprocessed"
               /\ UNCHANGED <<resp, status>>
          ELSE Respond([error |-> "server error",
                        detail |-> "UnidentifiedImageError"], 500)
    /\ UNCHANGED <<csv, ocr_outcome, ocr_text, idx, ingredients_text, tokens,
                   csv_failed, allergens_found, main_vars>>

\* lines 69-74: the engine raises
OcrRaises ==
    /\ pc = "preprocessed"
    /\ ocr_outcome' = "raised"
    /\ Respond([error |-> "tesseract failed", detail |-> "TesseractError"], 500)
    /\ UNCHANGED <<csv, ocr_text, idx, ingredients_text, tokens, csv_failed,
                   allergens_found, main_vars>>

\* lines 69-71: the engine returns text
OcrReturns ==
    /\ pc = "preprocessed"
    /\ \E text \in OcrTexts : ocr_text' = text
    /\ ocr_outcome' = "text"
    /\ pc' = "ocr_done"
    /\ UNCHANGED <<csv, idx, ingredients_text, tokens, csv_failed, allergens_found,
                   resp, status, main_vars>>

\* lines 79-100
Extract ==
    /\ pc = "ocr_done"
    /\ idx' = MarkerIdx(ocr_text)
    /\ LET ing == ExtractIngredients(ocr_text)
       IN /\ ingredients_text' = ing
          /\ tokens' = Tokenize(ing)
    /\ pc' = "extracted"
    /\ UNCHANGED <<csv, ocr_outcome, ocr_text, csv_failed, allergens_found, resp,
                   status, main_vars>>

\* lines 103-161: read the table found at csv_path, score, respond
Score ==
    /\ pc = "extracted"
    /\ \E table \in Tables :
          \E c \in {CsvStage(table, tokens)} :
             \E found \in {AllergensFound(c, tokens)} :
                /\ csv' = table
                /\ csv_failed' = c.failed
                /\ allergens_found' = found
                /\ Respond(Response(ocr_text, ingredients_text, tokens, found,
                                    HealthScore(c, tokens)), 200)
    /\ UNCHANGED <<ocr_outcome, ocr_text, idx, ingredients_text, tokens, main_vars>>

\* the next request starts from fresh locals
NextRequest ==
    /\ pc = "done"
    /\ pc' = "idle"
    /\ ocr_outcome' = "none"
    /\ ocr_text' = ""
    /\ idx' = -1
    /\ ingredients_text' = ""
    /\ tokens' = <<>>
    /\ csv_failed' = FALSE
    /\ allergens_found' = <<>>
    /\ resp' = NoResponse
    /\ status' = 0
    /\ csv' = NotRead
    /\ UNCHANGED main_vars

-----------------------------------------------------------------------------
(* main() of test_ocr.py: best-of-N over preprocessing variants and          *)
(* segmentation modes                                                       *)

\* The keys of the dict preprocess_variants builds, in insertion order (the
\* last one carries the deskew angle, here 0).
VariantNames == <<"adaptive_thresh", "bilateral+adapt", "gauss+otsu",
                  "sharpen+otsu", "inv_adapt", "deskew_otsu_0deg">>

\* The variants the model runs through
Variants == SubSeq(VariantNames, 1, NVariants)

psm_modes == <<"--psm 6", "--psm 3", "--psm 11">>

\* What the engine may read off a variant
EngineTexts == {"o k", "salt", "a fat"}

\* One call of ocr_image_cv: it raises or returns text
EngineOutcomes ==
    {[raised |-> TRUE, text |-> ""]}
    \cup {[raised |-> FALSE, text |-> t] : t \in EngineTexts}

NoBest == [name |-> "", score |-> -1, txt |-> "", path |-> ""]

\* score_text: the number of whitespace-separated words longer than one character
score_text(text) ==
    IF text = "" THEN 0
    ELSE Len(SelectSeq(SplitRuns(text, Whitespace), LAMBDA w : Len(w) > 1))

\* sc >= best_score: a later attempt of equal score replaces the earlier one
ImprovesOrTies(sc, best_so_far) == sc >= best_so_far

\* if sc > best_score
Improves(sc, best_so_far) == sc > best_so_far

\* sorted(results, key=lambda x: x[1], reverse=True): stable, so results of
\* equal score keep their order
RECURSIVE StableSortDesc(_)
StableSortDesc(rs) ==
    IF rs = <<>> THEN <<>>
    ELSE LET sorted == StableSortDesc(SubSeq(rs, 1, Len(rs) - 1))
             x == rs[Len(rs)]
             ahead == SelectSeq(sorted, LAMBDA r : r.score >= x.score)
             behind == SelectSeq(sorted, LAMBDA r : r.score < x.score)
         IN ahead \o <<x>> \o behind

MainIdle ==
    /\ m_pc = "start"
    /\ vi = 1
    /\ mi = 1
    /\ best_text_for_variant = ""
    /\ best_score = -1
    /\ results = <<>>
    /\ results_sorted = <<>>
    /\ best = NoBest
    /\ attempts = <<>>

\* lines 132-137
Preprocess ==
    /\ m_pc = "start"
    /\ results' = <<>>
    /\ vi' = 1
    /\ m_pc' = "variant"
    /\ UNCHANGED <<mi, best_text_for_variant, best_score, results_sorted, best,
                   attempts, predict_vars>>

\* lines 138-144: the next variant of the outer loop
StartVariant ==
    /\ m_pc = "variant"
    /\ vi <= Len(Variants)
    /\ best_text_for_variant' = ""
    /\ best_score' = -1
    /\ mi' = 1
    /\ m_pc' = "psm"
    /\ UNCHANGED <<vi, results, results_sorted, best, attempts, predict_vars>>

\* lines 145-153: one OCR attempt; an exception of the engine leaves txt = ""
TryPsm ==
    /\ m_pc = "psm"
    /\ mi <= Len(psm_modes)
    /\ \E o \in EngineOutcomes :
          LET txt == IF o.raised THEN "" ELSE o.text
              sc == score_text(txt)
          IN /\ attempts' = Append(attempts, [variant |-> Variants[vi],
                                              psm |-> psm_modes[mi],
                                              raised |-> o.raised, txt |-> txt])
             /\ IF Improves(sc, best_score)
                THEN /\ best_score' = sc
                     /\ best_text_for_variant' = txt
                ELSE UNCHANGED <<best_score, best_text_for_variant>>
    /\ mi' = mi + 1
    /\ UNCHANGED <<m_pc, vi, results, results_sorted, best, predict_vars>>

\* line 154
AppendResult ==
    /\ m_pc = "psm"
    /\ mi > Len(psm_modes)
    /\ results' = Append(results, [name |-> Variants[vi], score |-> best_score,
                                   txt |-> best_text_for_variant,
                                   path |-> Variants[vi] \o ".png"])
    /\ vi' = vi + 1
    /\ m_pc' = "variant"
    /\ UNCHANGED <<mi, best_text_for_variant, best_score, results_sorted, best,
                   attempts, predict_vars>>

\* lines 157-166
SortAndPick ==
    /\ m_pc = "variant"
    /\ vi > Len(Variants)
    /\ results_sorted' = StableSortDesc(results)
    /\ best' = IF results = <<>> THEN NoBest ELSE StableSortDesc(results)[1]
    /\ m_pc' = "done"
    /\ UNCHANGED <<vi, mi, best_text_for_variant, best_score, results, attempts,
                   predict_vars>>

PredictIdle ==
    /\ pc = "idle"
    /\ csv = NotRead
    /\ ocr_outcome = "none"
    /\ ocr_text = ""
    /\ idx = -1
    /\ ingredients_text = ""
    /\ tokens = <<>>
    /\ csv_failed = FALSE
    /\ allergens_found = <<>>
    /\ resp = NoResponse
    /\ status = 0

Init ==
    /\ PredictIdle
    /\ MainIdle

Next ==
    \/ Receive
    \/ LoadImage
    \/ OcrRaises
    \/ OcrReturns
    \/ Extract
    \/ Score
    \/ NextRequest

Spec == Init /\ [][Next]_vars

MainNext ==
    \/ Preprocess
    \/ StartVariant
    \/ TryPsm
    \/ AppendResult
    \/ SortAndPick

SpecMain == Init /\ [][MainNext]_vars

-----------------------------------------------------------------------------
(* Properties of predict *)

Responded == pc = "done"

Success == Responded /\ status = 200

Failure == Responded /\ status # 200

Extracted == pc \in {"extracted", "done"} /\ ocr_outcome = "text"

SetMin(S) == CHOOSE x \in S : \A y \in S : x <= y

SetMax(S) == CHOOSE x \in S : \A y \in S : x >= y

IsPrefix(a, b) == Len(a) <= Len(b) /\ SliceTo(b, Len(a)) = a

\* C1: every success response carries a health_score that is an integer
\* between 0 and 100, whatever the tokens and the reference table.
C1_HealthScoreInRange ==
    Success => resp.health_score \in 0..100

\* C2: every response that is not a success carries ok = false, an error
\* string and a detail string.
C2_FailureIsStructured ==
    Failure => /\ {"ok", "error", "detail"} \subseteq DOMAIN resp
               /\ resp.ok = FALSE

\* C3: an exception of the OCR engine is never fatal: the request it occurs in
\* still ends in a success response.
C3_OcrFailureNotFatal ==
    (Responded /\ ocr_outcome = "raised") => (status = 200 /\ "ok" \in DOMAIN resp)

\* C4: when the reference table is absent, or reading or matching it raised,
\* the request succeeds and the allergens and the health score are exactly
\* those of the built-in vocabularies.
C4_TableErrorFallsBack ==
    (Responded /\ ocr_outcome = "text" /\ (csv.state = "absent" \/ csv_failed))
    => /\ status = 200
       /\ resp.allergens = SortedSet(FallbackAllergens(tokens))
       /\ resp.health_score = IntOf(FallbackHealth(tokens))

SpecExampleTokens == <<"skim milk powder", "sugar", "salt">>

SpecExampleScored == Success /\ csv.state = "absent" /\ tokens = SpecExampleTokens

\* The (token, bad word) pairs where the word occurs in the lower-cased token
PenaltyMatches(toks) ==
    {<<i, k>> \in (1..Len(toks)) \X (1..Len(bad_words)) :
        Contains(Lower(toks[i]), bad_words[k])}

\* C5 as stated: table absent, tokens "skim milk powder", "sugar", "salt": the
\* allergens contain "milk" and health_score = 85.
C5_ExampleScores85 ==
    SpecExampleScored
    => /\ "milk" \in SeqToSet(resp.allergens)
       /\ resp.health_score = 85

\* C5 amended: table absent, tokens "skim milk powder", "sugar", "salt": the
\* allergens contain "milk" and health_score = 90; and with the table absent
\* the score is always max(0, 100 - 5 * matches), matches being the number of
\* (token, bad word) pairs that match.
C5_ExampleScores90 ==
    /\ SpecExampleScored
       => /\ "milk" \in SeqToSet(resp.allergens)
          /\ resp.health_score = 90
    /\ (Success /\ csv.state = "absent")
       => resp.health_score = Max2(0, 100 - 5 * Cardinality(PenaltyMatches(tokens)))

C5_Witness ==
    /\ SpecExampleScored
    /\ Cardinality(PenaltyMatches(tokens)) = 2
    /\ resp.allergens = <<"milk">>

SpecExampleLabel == "Ingredients: Water, Sugar, Salt. Nutrition Facts ..."

\* C6: for the label "Ingredients: Water, Sugar, Salt. Nutrition Facts ..."
\* the ingredients text ends before "Nutrition Facts" and the tokens are
\* exactly "Water", "Sugar", "Salt".
C6_ListedItemsAreTokens ==
    (Extracted /\ ocr_text = SpecExampleLabel)
    => /\ ~Contains(ingredients_text, "Nutrition Facts")
       /\ tokens = <<"Water", "Sugar", "Salt">>

\* C7: in every success response the allergens list is strictly ascending in
\* lexicographic order: sorted, and no element twice.
C7_AllergensStrictlyAscending ==
    Success => \A i \in 1..(Len(resp.allergens) - 1) :
                  StrLess(resp.allergens[i], resp.allergens[i + 1])

C7_Witness ==
    /\ Success
    /\ csv.state = "present"
    /\ Len(allergens_found) > Cardinality(SeqToSet(allergens_found))
    /\ \E i \in 1..(Len(allergens_found) - 1) :
          StrLess(allergens_found[i + 1], allergens_found[i])
    /\ Len(resp.allergens) >= 2

ServedMarker == "ingredients as served"

\* C8: whenever the text contains "ingredients as served", the snippet starts
\* at the first occurrence of that phrase.
C8_ServedMarkerWins ==
    (Extracted /\ Contains(Lower(ocr_text), ServedMarker))
    => /\ idx = Find(Lower(ocr_text), ServedMarker)
       /\ IsPrefix(ingredients_text, SliceFrom(ocr_text, Find(Lower(ocr_text), ServedMarker)))

\* The offsets in the snippet at which some terminator occurs first
StopOffsets(snippet) ==
    {Find(Lower(snippet), stop_tokens[k]) : k \in 1..Len(stop_tokens)} \ {-1}

\* C9: when a marker is found the ingredients text is the snippet cut at the
\* smallest offset at which any terminator occurs, the whole snippet when none
\* does; so it contains no terminator.
C9_CutAtEarliestTerminator ==
    (Extracted /\ idx # -1)
    => LET snippet == SliceFrom(ocr_text, idx)
           offs == StopOffsets(snippet)
       IN /\ ingredients_text = IF offs = {} THEN snippet
                                ELSE SliceTo(snippet, SetMin(offs))
          /\ \A k \in 1..Len(stop_tokens) :
                ~Contains(Lower(ingredients_text), stop_tokens[k])

-----------------------------------------------------------------------------
(* Properties of main *)

AttemptScores == [k \in 1..Len(attempts) |-> score_text(attempts[k].txt)]

\* C10: once every (variant, mode) pair has been attempted, failed attempts
\* included, the best result has the maximum score over all pairs, hence at
\* least the score of adaptive_thresh under --psm 6, and it is the first pair
\* in iteration order that reaches the maximum.
C10_BestIsFirstMaximum ==
    m_pc = "done"
    => LET top == SetMax({AttemptScores[k] : k \in 1..Len(attempts)})
           first == SetMin({k \in 1..Len(attempts) : AttemptScores[k] = top})
       IN /\ Len(attempts) = Len(Variants) * Len(psm_modes)
          /\ attempts[1].variant = "adaptive_thresh"
          /\ attempts[1].psm = "--psm 6"
          /\ best.score = top
          /\ best.score >= AttemptScores[1]
          /\ best.name = attempts[first].variant
          /\ best.txt = attempts[first].txt

C10_Witness ==
    /\ m_pc = "done"
    /\ best.score = 1
    /\ best.name = Variants[Len(Variants)]
    /\ \E k \in 1..Len(attempts) : attempts[k].raised
    /\ \E j, k \in 1..Len(attempts) :
          /\ j < k
          /\ attempts[j].variant = best.name
          /\ attempts[k].variant = best.name
          /\ AttemptScores[j] = 1
          /\ AttemptScores[k] = 1
          /\ attempts[j].txt # attempts[k].txt
          /\ best.txt = attempts[j].txt

====
